---- MODULE Spec2Model ----
(***************************************************************************)
(* Microwave Time Converter (src/script.js, src/index.html).               *)
(*                                                                         *)
(* The page holds four number inputs, three .input-group blocks, the       *)
(* .time-row inside the second block and a result section.  The class      *)
(* MicrowaveConverter validates the inputs, converts the cooking time and  *)
(* displays it; Utils holds the power-level advice.                        *)
(*                                                                         *)
(* JavaScript numbers are modelled exactly where the code can produce      *)
(* them: a finite number is a fraction num/den (den > 0), and NaN and the  *)
(* infinities are values of their own.  The text of a number input is a    *)
(* record of its sign, integer digits, one fraction digit and exponent,    *)
(* so that parseInt and parseFloat read it the way JavaScript does.        *)
(***************************************************************************)
EXTENDS Integers, Sequences, FiniteSets, TLC

VARIABLES
    value,              \* input id -> text of the input (input.value)
    cls,                \* block -> "none" | "error" | "success" (classList)
    msg,                \* block -> text of its own .error-message child, "" if none
    hidden,             \* resultSection.classList.contains('hidden')
    resultTime,         \* resultTime.textContent
    resultExplanation,  \* resultExplanation.textContent
    call,               \* the latest calculateConversion(data) and what it returned
    rec,                \* the latest Utils.getPowerLevelRecommendation result
    req,                \* the request handed to the engine functions (SpecEngine)
    lastEvent,          \* the event handled last, and what its handler returned
    focus               \* id of the input that has the focus, "" if no input has it

vars == <<value, cls, msg, hidden, resultTime, resultExplanation, call, rec, req, lastEvent,
          focus>>

(***************************************************************************)
(* Program constants.                                                      *)
(***************************************************************************)
MinWattage == 100
MaxWattage == 2000
MaxSeconds == 59
MaxMinutes == 60
DefaultTargetWattage == 700
SecondsPerMinute == 60

commonWattages == <<600, 700, 800, 900, 1000, 1100, 1200>>

commonTimes ==
    << [label |-> "30s",    minutes |-> 0,  seconds |-> 30],
       [label |-> "1m",     minutes |-> 1,  seconds |-> 0],
       [label |-> "1m 30s", minutes |-> 1,  seconds |-> 30],
       [label |-> "2m",     minutes |-> 2,  seconds |-> 0],
       [label |-> "2m 30s", minutes |-> 2,  seconds |-> 30],
       [label |-> "3m",     minutes |-> 3,  seconds |-> 0],
       [label |-> "4m",     minutes |-> 4,  seconds |-> 0],
       [label |-> "5m",     minutes |-> 5,  seconds |-> 0],
       [label |-> "7m",     minutes |-> 7,  seconds |-> 0],
       [label |-> "8m",     minutes |-> 8,  seconds |-> 0],
       [label |-> "10m",    minutes |-> 10, seconds |-> 0] >>

(***************************************************************************)
(* Bounds of the model.                                                    *)
(***************************************************************************)
\* wattages next to each end of [MinWattage, MaxWattage] that the engine is tried on
WattageNear == 1
\* minutes next to each end of [0, MaxMinutes] that the engine is tried on
MinuteNear == 2
\* quick-select buttons of each catalog that are clicked (the first ones)
QuickLimit == 1

(***************************************************************************)
(* JavaScript numbers.                                                     *)
(***************************************************************************)
Rat(p, q) == [kind |-> "num", num |-> p, den |-> q]
Num(n) == Rat(n, 1)
NaN == [kind |-> "NaN", num |-> 0, den |-> 1]
Infinity == [kind |-> "Infinity", num |-> 1, den |-> 1]
NegInfinity == [kind |-> "Infinity", num |-> -1, den |-> 1]

IsNaN(x) == x.kind = "NaN"
IsFinite(x) == x.kind = "num"
IsInteger(x) == IsFinite(x) /\ x.num % x.den = 0

\* a < b; false when either side is NaN
JsLt(a, b) ==
    CASE IsNaN(a) \/ IsNaN(b) -> FALSE
      [] IsFinite(a) /\ IsFinite(b) -> a.num * b.den < b.num * a.den
      [] IsFinite(a) -> b.num > 0
      [] IsFinite(b) -> a.num < 0
      [] OTHER -> a.num < b.num

JsGt(a, b) == JsLt(b, a)

\* a <= b; false when either side is NaN
JsLe(a, b) ==
    CASE IsNaN(a) \/ IsNaN(b) -> FALSE
      [] IsFinite(a) /\ IsFinite(b) -> a.num * b.den <= b.num * a.den
      [] IsFinite(a) -> b.num > 0
      [] IsFinite(b) -> a.num < 0
      [] OTHER -> a.num <= b.num

JsGe(a, b) == JsLe(b, a)

\* a === b on numbers (NaN equals nothing)
JsEq(a, b) ==
    CASE IsNaN(a) \/ IsNaN(b) -> FALSE
      [] IsFinite(a) /\ IsFinite(b) -> a.num * b.den = b.num * a.den
      [] OTHER -> a.kind = b.kind /\ a.num = b.num

Sign(n) == IF n > 0 THEN 1 ELSE IF n < 0 THEN -1 ELSE 0

\* a * b
JsMul(a, b) ==
    CASE IsNaN(a) \/ IsNaN(b) -> NaN
      [] IsFinite(a) /\ IsFinite(b) -> Rat(a.num * b.num, a.den * b.den)
      [] OTHER -> IF Sign(a.num) * Sign(b.num) = 0 THEN NaN
                  ELSE IF Sign(a.num) * Sign(b.num) > 0 THEN Infinity ELSE NegInfinity

\* a + b
JsAdd(a, b) ==
    CASE IsNaN(a) \/ IsNaN(b) -> NaN
      [] IsFinite(a) /\ IsFinite(b) ->
            IF a.den = b.den THEN Rat(a.num + b.num, a.den)
            ELSE Rat(a.num * b.den + b.num * a.den, a.den * b.den)
      [] IsFinite(a) -> b
      [] IsFinite(b) -> a
      [] OTHER -> IF a.num = b.num THEN a ELSE NaN

\* a / b.  The double quotient of two integers below 2^53 is the exact
\* fraction rounded to 53 bits; for the operands of this program (products
\* below 10^7, divisors up to 2000) a quotient that is not a half or an
\* integer is at least 1/4000 away from one, so Math.round, Math.floor and
\* the comparisons give on the double what they give on the exact fraction.
JsDiv(a, b) ==
    CASE IsNaN(a) \/ IsNaN(b) -> NaN
      [] IsFinite(a) /\ IsFinite(b) ->
            IF b.num = 0
            THEN IF a.num = 0 THEN NaN
                 ELSE IF a.num > 0 THEN Infinity ELSE NegInfinity
            ELSE Rat(Sign(b.num) * a.num * b.den, Sign(b.num) * b.num * a.den)
      [] IsFinite(a) -> Num(0)
      [] IsFinite(b) ->
            IF Sign(a.num) * (IF b.num < 0 THEN -1 ELSE 1) > 0 THEN Infinity ELSE NegInfinity
      [] OTHER -> NaN

\* Math.round: the nearest integer, an exact half goes up (towards +Infinity)
MathRound(x) ==
    IF IsFinite(x) THEN Num((2 * x.num + x.den) \div (2 * x.den)) ELSE x

\* Math.floor
MathFloor(x) ==
    IF IsFinite(x) THEN Num(x.num \div x.den) ELSE x

\* a % n for an integer a and a positive integer n: the sign of the dividend
JsRem(a, n) ==
    IF IsFinite(a) /\ IsFinite(n) /\ n.num # 0
    THEN IF a.num >= 0 THEN Num(a.num % n.num) ELSE Num(-((-a.num) % n.num))
    ELSE NaN

\* `${x}` for an integer, NaN or an infinity
JsToString(x) ==
    CASE IsNaN(x) -> "NaN"
      [] IsFinite(x) -> ToString(x.num \div x.den)
      [] OTHER -> IF x.num > 0 THEN "Infinity" ELSE "-Infinity"

\* x || 0 on a number: NaN and 0 are falsy
OrZero(x) == IF IsNaN(x) \/ JsEq(x, Num(0)) THEN Num(0) ELSE x

(***************************************************************************)
(* The text of a number input.  A number input holds "" or a valid         *)
(* floating-point number: sign, integer digits, fraction, exponent.        *)
(***************************************************************************)
Empty == [kind |-> "empty", neg |-> FALSE, ip |-> 0, frac |-> 0, exp |-> 0]
NumText(neg, ip, frac, exp) == [kind |-> "number", neg |-> neg, ip |-> ip, frac |-> frac, exp |-> exp]
\* input.value = n for an integer n
IntText(n) == NumText(n < 0, IF n < 0 THEN -n ELSE n, 0, 0)

\* 10^e for the exponents 0..4 of the texts of the model
Pow10(e) == CASE e = 0 -> 1 [] e = 1 -> 10 [] e = 2 -> 100 [] e = 3 -> 1000 [] OTHER -> 10000

\* parseInt: the leading integer digits, read up to the first "." or "e"
parseInt(t) ==
    IF t.kind = "empty" THEN NaN
    ELSE Num((IF t.neg THEN -1 ELSE 1) * t.ip)

\* parseFloat: the whole number
parseFloat(t) ==
    IF t.kind = "empty" THEN NaN
    ELSE Rat((IF t.neg THEN -1 ELSE 1) * (t.ip * 10 + t.frac) * Pow10(t.exp), 10)

(***************************************************************************)
(* MicrowaveConverter.calculateConversion, formatTime and the strings of   *)
(* displayResult.                                                          *)
(***************************************************************************)
calculateConversion_truncates(data) ==
    LET originalTotalSeconds ==
            JsAdd(JsMul(data.originalMinutes, Num(SecondsPerMinute)), data.originalSeconds)
        newTotalSeconds ==
            MathFloor(JsDiv(JsMul(originalTotalSeconds, data.originalWattage), data.targetWattage))
    IN  [ originalTotalSeconds |-> originalTotalSeconds,
          newTotalSeconds |-> newTotalSeconds,
          newMinutes |-> MathFloor(JsDiv(newTotalSeconds, Num(SecondsPerMinute))),
          newSeconds |-> JsRem(newTotalSeconds, Num(SecondsPerMinute)),
          ratio |-> JsDiv(data.originalWattage, data.targetWattage) ]

calculateConversion_roundsMinutes(data) ==
    LET originalTotalSeconds ==
            JsAdd(JsMul(data.originalMinutes, Num(SecondsPerMinute)), data.originalSeconds)
        newTotalSeconds ==
            MathRound(JsDiv(JsMul(originalTotalSeconds, data.originalWattage), data.targetWattage))
    IN  [ originalTotalSeconds |-> originalTotalSeconds,
          newTotalSeconds |-> newTotalSeconds,
          newMinutes |-> MathRound(JsDiv(newTotalSeconds, Num(SecondsPerMinute))),
          newSeconds |-> JsRem(newTotalSeconds, Num(SecondsPerMinute)),
          ratio |-> JsDiv(data.originalWattage, data.targetWattage) ]

calculateConversion_inverted(data) ==
    LET originalTotalSeconds ==
            JsAdd(JsMul(data.originalMinutes, Num(SecondsPerMinute)), data.originalSeconds)
        newTotalSeconds ==
            MathRound(JsDiv(JsMul(originalTotalSeconds, data.targetWattage), data.originalWattage))
    IN  [ originalTotalSeconds |-> originalTotalSeconds,
          newTotalSeconds |-> newTotalSeconds,
          newMinutes |-> MathFloor(JsDiv(newTotalSeconds, Num(SecondsPerMinute))),
          newSeconds |-> JsRem(newTotalSeconds, Num(SecondsPerMinute)),
          ratio |-> JsDiv(data.originalWattage, data.targetWattage) ]

calculateConversion_ceils(data) ==
    LET originalTotalSeconds ==
            JsAdd(JsMul(data.originalMinutes, Num(SecondsPerMinute)), data.originalSeconds)
        quotient == JsDiv(JsMul(originalTotalSeconds, data.originalWattage), data.targetWattage)
        newTotalSeconds ==
            IF IsFinite(quotient) THEN Num(-((-quotient.num) \div quotient.den)) ELSE quotient
    IN  [ originalTotalSeconds |-> originalTotalSeconds,
          newTotalSeconds |-> newTotalSeconds,
          newMinutes |-> MathFloor(JsDiv(newTotalSeconds, Num(SecondsPerMinute))),
          newSeconds |-> JsRem(newTotalSeconds, Num(SecondsPerMinute)),
          ratio |-> JsDiv(data.originalWattage, data.targetWattage) ]

calculateConversion_unrounded(data) ==
    LET originalTotalSeconds ==
            JsAdd(JsMul(data.originalMinutes, Num(SecondsPerMinute)), data.originalSeconds)
        newTotalSeconds ==
            JsDiv(JsMul(originalTotalSeconds, data.originalWattage), data.targetWattage)
    IN  [ originalTotalSeconds |-> originalTotalSeconds,
          newTotalSeconds |-> newTotalSeconds,
          newMinutes |-> MathFloor(JsDiv(newTotalSeconds, Num(SecondsPerMinute))),
          newSeconds |-> JsRem(newTotalSeconds, Num(SecondsPerMinute)),
          ratio |-> JsDiv(data.originalWattage, data.targetWattage) ]

calculateConversion(data) ==
    LET originalTotalSeconds ==
            JsAdd(JsMul(data.originalMinutes, Num(SecondsPerMinute)), data.originalSeconds)
        newTotalSeconds ==
            MathRound(JsDiv(JsMul(originalTotalSeconds, data.originalWattage), data.targetWattage))
    IN  [ originalTotalSeconds |-> originalTotalSeconds,
          newTotalSeconds |-> newTotalSeconds,
          newMinutes |-> MathFloor(JsDiv(newTotalSeconds, Num(SecondsPerMinute))),
          newSeconds |-> JsRem(newTotalSeconds, Num(SecondsPerMinute)),
          ratio |-> JsDiv(data.originalWattage, data.targetWattage) ]

\* the time string displayResult builds from the result
timeString(result) ==
    (IF JsGt(result.newMinutes, Num(0)) THEN JsToString(result.newMinutes) \o "m " ELSE "")
        \o JsToString(result.newSeconds) \o "s"

\* formatTime(minutes, seconds); the trailing blank of "<m>m " is trimmed
formatTime(minutes, seconds) ==
    LET m == JsGt(minutes, Num(0))
        s == JsGt(seconds, Num(0)) \/ JsEq(minutes, Num(0))
    IN  CASE m /\ s -> JsToString(minutes) \o "m " \o JsToString(seconds) \o "s"
          [] m /\ ~s -> JsToString(minutes) \o "m"
          [] ~m /\ s -> JsToString(seconds) \o "s"
          [] OTHER -> ""

explanationString_swapped(result, formData) ==
    "Cook for " \o formatTime(formData.originalMinutes, formData.originalSeconds)
        \o " instead of " \o timeString(result)

\* the explanation displayResult builds
explanationString(result, formData) ==
    "Cook for " \o timeString(result) \o " instead of "
        \o formatTime(formData.originalMinutes, formData.originalSeconds)

(***************************************************************************)
(* Utils.                                                                  *)
(***************************************************************************)
isValidWattage(wattage) == JsGe(wattage, Num(MinWattage)) /\ JsLe(wattage, Num(MaxWattage))

LowerPower == [powerLevel |-> "70-80%",
               reason |-> "Your microwave is much more powerful. Consider using a lower power level."]
LessPowerful == [powerLevel |-> "100%",
                 reason |-> "Your microwave is less powerful. Use full power and check frequently."]
SimilarPower == [powerLevel |-> "100%",
                 reason |-> "Your microwave power is similar to the recipe. Use normal power."]

\* the thresholds 1.5 and 0.7 of the ratio.  The literal 0.7 is the double
\* nearest to 7/10, which is also the quotient of any two wattages in the
\* ratio 7:10, so ratio < 0.7 on doubles is 10*original < 7*target.
HighRatio == Rat(15, 10)
LowRatio == Rat(7, 10)

getPowerLevelRecommendation_inclusive(originalWattage, targetWattage) ==
    LET ratio == JsDiv(originalWattage, targetWattage)
    IN  IF JsGe(ratio, HighRatio) THEN LowerPower
        ELSE IF JsLe(ratio, LowRatio) THEN LessPowerful
        ELSE SimilarPower

getPowerLevelRecommendation(originalWattage, targetWattage) ==
    LET ratio == JsDiv(originalWattage, targetWattage)
    IN  IF JsGt(ratio, HighRatio) THEN LowerPower
        ELSE IF JsLt(ratio, LowRatio) THEN LessPowerful
        ELSE SimilarPower

(***************************************************************************)
(* The page as loaded (src/index.html).                                    *)
(***************************************************************************)
InputIds == <<"originalWattage", "originalMinutes", "originalSeconds", "targetWattage">>
Blocks == {"recipeGroup", "timeGroup", "yourGroup", "timeRow"}

LoadedValue ==
    [ originalWattage |-> Empty,
      originalMinutes |-> IntText(0),
      originalSeconds |-> IntText(0),
      targetWattage |-> IntText(DefaultTargetWattage) ]

\* what happened last: the event or handler, the input it ran on ("" if none),
\* what it returned
Event(name, id, ok) == [name |-> name, id |-> id, ok |-> ok]

NoCall == [made |-> FALSE]
NoRec == [made |-> FALSE]
NoReq == [made |-> FALSE]

PageLoaded ==
    /\ cls = [b \in Blocks |-> "none"]
    /\ msg = [b \in Blocks |-> ""]
    /\ hidden = TRUE
    /\ resultTime = ""
    /\ resultExplanation = ""
    /\ call = NoCall
    /\ rec = NoRec
    /\ focus = ""

\* displayResult(result, formData)
displayResult(result, formData) ==
    /\ resultTime' = timeString(result)
    /\ resultExplanation' = explanationString(result, formData)
    /\ hidden' = FALSE

(***************************************************************************)
(* SpecEngine: the engine functions applied to valid requests.             *)
(***************************************************************************)
Range(seq) == {seq[i] : i \in 1..Len(seq)}

WattageSamples ==
    {MinWattage + k : k \in 0..WattageNear} \cup {MaxWattage - k : k \in 0..WattageNear}
        \cup Range(commonWattages)

MinuteSamples ==
    {k : k \in 0..MinuteNear} \cup {MaxMinutes - k : k \in 0..MinuteNear}

Data(ow, m, s, tw) ==
    [ originalWattage |-> Num(ow), originalMinutes |-> Num(m),
      originalSeconds |-> Num(s), targetWattage |-> Num(tw) ]

ValidRequests ==
    { Data(ow, m, s, tw) : ow \in WattageSamples, tw \in WattageSamples,
                           m \in MinuteSamples, s \in 0..MaxSeconds }
        \ { Data(ow, 0, 0, tw) : ow \in WattageSamples, tw \in WattageSamples }

EngineInit ==
    /\ req \in ValidRequests
    /\ value = LoadedValue
    /\ PageLoaded
    /\ lastEvent = Event("load", "", TRUE)

EngineCalculate ==
    /\ call = NoCall
    /\ call' = [made |-> TRUE, data |-> req, result |-> calculateConversion(req)]
    /\ lastEvent' = Event("calculateConversion", "", TRUE)
    /\ UNCHANGED <<value, cls, msg, hidden, resultTime, resultExplanation, rec, req, focus>>

EngineDisplay ==
    /\ call # NoCall
    /\ hidden
    /\ displayResult(call.result, call.data)
    /\ lastEvent' = Event("displayResult", "", TRUE)
    /\ UNCHANGED <<value, cls, msg, call, rec, req, focus>>

EngineRecommend ==
    /\ rec = NoRec
    /\ rec' = [made |-> TRUE,
               advice |-> getPowerLevelRecommendation(req.originalWattage, req.targetWattage)]
    /\ lastEvent' = Event("getPowerLevelRecommendation", "", TRUE)
    /\ UNCHANGED <<value, cls, msg, hidden, resultTime, resultExplanation, call, req, focus>>

EngineNext == EngineCalculate \/ EngineDisplay \/ EngineRecommend

SpecEngine == EngineInit /\ [][EngineNext]_vars

(***************************************************************************)
(* SpecExtremes: the engine functions applied to every valid duration at   *)
(* the two extreme wattage pairs.                                          *)
(***************************************************************************)
ExtremeRequests ==
    { Data(ow, m, s, tw) : ow \in {MinWattage, MaxWattage}, tw \in {MinWattage, MaxWattage},
                           m \in 0..MaxMinutes, s \in 0..MaxSeconds }
        \ ( { Data(w, m, s, w) : w \in {MinWattage, MaxWattage},
                                 m \in 0..MaxMinutes, s \in 0..MaxSeconds }
            \cup { Data(ow, 0, 0, tw) : ow \in {MinWattage, MaxWattage},
                                        tw \in {MinWattage, MaxWattage} } )

ExtremeInit ==
    /\ req \in ExtremeRequests
    /\ value = LoadedValue
    /\ PageLoaded
    /\ lastEvent = Event("load", "", TRUE)

SpecExtremes == ExtremeInit /\ [][EngineNext]_vars

(***************************************************************************)
(* Claims about the engine functions (SpecEngine).                         *)
(***************************************************************************)
\* the integers of the request of the latest call
CallOW == call.data.originalWattage.num
CallTW == call.data.targetWattage.num
CallTotal == call.data.originalMinutes.num * SecondsPerMinute + call.data.originalSeconds.num

\* C1: for a valid request calculateConversion returns originalTotalSeconds =
\* minutes*60 + seconds, and newTotalSeconds is the integer nearest to
\* originalTotalSeconds*originalWattage/targetWattage, an exact half rounded up:
\* n - 1/2 <= T*ow/tw < n + 1/2, that is n = floor((2*T*ow + tw) / (2*tw)).
C1_RoundedHalfUp ==
    call.made =>
        LET n == call.result.newTotalSeconds
        IN  /\ call.result.originalTotalSeconds = Num(CallTotal)
            /\ IsFinite(n) /\ n.den = 1
            /\ (2 * n.num - 1) * CallTW <= 2 * CallTotal * CallOW
            /\ 2 * CallTotal * CallOW < (2 * n.num + 1) * CallTW
            /\ n.num = (2 * CallTotal * CallOW + CallTW) \div (2 * CallTW)

\* a call whose exact quotient lies on a half, which was rounded up
C1_Witness ==
    /\ call.made
    /\ (2 * CallTotal * CallOW) % (2 * CallTW) = CallTW
    /\ 2 * call.result.newTotalSeconds.num * CallTW = 2 * CallTotal * CallOW + CallTW

\* C2: the converted duration is well formed: newMinutes = floor(newTotalSeconds/60),
\* newSeconds = newTotalSeconds mod 60, 0 <= newSeconds <= 59, newMinutes >= 0 and
\* newMinutes*60 + newSeconds = newTotalSeconds.
C2_WellFormedDuration ==
    call.made =>
        LET n == call.result.newTotalSeconds
            m == call.result.newMinutes
            s == call.result.newSeconds
        IN  /\ IsFinite(n) /\ IsFinite(m) /\ IsFinite(s)
            /\ n.den = 1 /\ m.den = 1 /\ s.den = 1
            /\ m.num = n.num \div SecondsPerMinute
            /\ s.num = n.num % SecondsPerMinute
            /\ 0 <= s.num /\ s.num <= 59
            /\ m.num >= 0
            /\ m.num * SecondsPerMinute + s.num = n.num

\* a converted time of at least a minute whose seconds are in the upper half
C2_Witness ==
    /\ call.made
    /\ call.result.newMinutes.num >= 1
    /\ call.result.newSeconds.num >= 30

\* C3: converting W -> W gives back the original time: the same total, the same
\* minutes and seconds, and the displayed converted time is the same string as
\* the displayed original time.
C3_SameWattageSameTime ==
    (lastEvent.name = "displayResult" /\ CallOW = CallTW) =>
        /\ call.result.newTotalSeconds = call.result.originalTotalSeconds
        /\ call.result.newMinutes = call.data.originalMinutes
        /\ call.result.newSeconds = call.data.originalSeconds
        /\ resultExplanation = "Cook for " \o resultTime \o " instead of " \o resultTime

\* newTotalSeconds for the request of the latest call with another target wattage
NewTotalAt(tw) ==
    calculateConversion([call.data EXCEPT !.targetWattage = Num(tw)]).newTotalSeconds.num

\* C4 as claimed: a larger target wattage gives a strictly smaller newTotalSeconds.
C4_StrictlyDecreasing ==
    call.made =>
        \A t2 \in WattageSamples :
            t2 > CallTW => NewTotalAt(t2) < call.result.newTotalSeconds.num

\* C4 as amended: a larger target wattage never gives a larger newTotalSeconds.
C4_NonIncreasing ==
    call.made =>
        \A t2 \in WattageSamples :
            t2 > CallTW => NewTotalAt(t2) <= call.result.newTotalSeconds.num

\* a call for which one larger target wattage shortens the time and another does not
C4_Witness ==
    /\ call.made
    /\ \E t2 \in WattageSamples :
            t2 > CallTW /\ NewTotalAt(t2) < call.result.newTotalSeconds.num
    /\ \E t2 \in WattageSamples :
            t2 > CallTW /\ NewTotalAt(t2) = call.result.newTotalSeconds.num

ExampleRequest == Data(1000, 2, 0, 700)

\* C11: the documented example holds end to end: for 1000W -> 700W and 2:00 the
\* original total is 120 s, newTotalSeconds is 171, the converted time is 2 min
\* 51 s and is displayed as '2m 51s', the ratio rounds to 1.43 at two decimals,
\* and the advice is '100%' with the similar-power reason.
C11_DocumentedExample ==
    req = ExampleRequest =>
        /\ call.made =>
              /\ call.result.originalTotalSeconds = Num(120)
              /\ call.result.newTotalSeconds = Num(171)
              /\ call.result.newMinutes = Num(2)
              /\ call.result.newSeconds = Num(51)
              /\ MathRound(JsMul(call.result.ratio, Num(100))) = Num(143)
        /\ ~hidden => resultTime = "2m 51s"
        /\ rec.made =>
              /\ rec.advice.powerLevel = "100%"
              /\ rec.advice.reason
                    = "Your microwave power is similar to the recipe. Use normal power."

\* the example was converted, displayed and given its advice
C11_Witness ==
    /\ req = ExampleRequest
    /\ call.made /\ call.data = ExampleRequest
    /\ ~hidden
    /\ rec.made

\* the one rule for a duration of m minutes and s seconds: '<s>s' without
\* minutes, '<m>m <s>s' with minutes, the seconds always written
DurationText(m, s) ==
    IF m = 0 THEN ToString(s) \o "s" ELSE ToString(m) \o "m " \o ToString(s) \o "s"

\* C12: the converted and the original duration are both written by the one
\* rule DurationText, so that an original time of 2 minutes 0 seconds is
\* displayed as '2m 0s'.
C12_OneFormattingRule ==
    lastEvent.name = "displayResult" =>
        /\ resultTime
              = DurationText(call.result.newMinutes.num, call.result.newSeconds.num)
        /\ resultExplanation
              = "Cook for "
                  \o DurationText(call.result.newMinutes.num, call.result.newSeconds.num)
                  \o " instead of "
                  \o DurationText(call.data.originalMinutes.num,
                                  call.data.originalSeconds.num)

\* the original time as the page writes it: whole minutes without their seconds
OriginalText(m, s) ==
    IF m > 0 /\ s = 0 THEN ToString(m) \o "m" ELSE DurationText(m, s)

Int32Max == (2^30 - 1) + 2^30

\* the longest valid duration, in seconds
MaxTotalSeconds == MaxMinutes * SecondsPerMinute + MaxSeconds

\* C15: at the wattage pairs 100 -> 2000 and 2000 -> 100, for every valid
\* duration, the product originalTotalSeconds*originalWattage and the result
\* newTotalSeconds are non-negative integers that fit a signed 32-bit integer:
\* the product is at most 3659*2000 and the result at most 73180.
C15_NoOverflow ==
    (call.made /\ {CallOW, CallTW} = {MinWattage, MaxWattage}) =>
        LET total == call.result.originalTotalSeconds
            n == call.result.newTotalSeconds
        IN  /\ IsFinite(total) /\ total.den = 1
            /\ 0 <= total.num /\ total.num <= MaxTotalSeconds
            /\ 0 <= total.num * CallOW
            /\ total.num * CallOW <= 3659 * 2000
            /\ total.num * CallOW <= Int32Max
            /\ IsFinite(n) /\ n.den = 1
            /\ 0 <= n.num /\ n.num <= 73180
            /\ n.num <= Int32Max

\* the longest duration converted from 2000W to 100W gives the largest result
C15_Witness ==
    /\ call.made
    /\ CallOW = MaxWattage /\ CallTW = MinWattage
    /\ CallTotal = MaxTotalSeconds
    /\ call.result.newTotalSeconds = Num(73180)

\* the energy of the converted time minus the energy of the recipe's time, in
\* watt seconds, for the latest call
EnergyDifference == call.result.newTotalSeconds.num * CallTW - CallTotal * CallOW

\* C21: the energy delivered by the converted time differs from the recipe's
\* energy by at most half a second of the target power:
\* 2*|newTotalSeconds*targetWattage - originalTotalSeconds*originalWattage|
\* <= targetWattage.
C21_EnergyWithinHalfSecond ==
    call.made =>
        /\ IsInteger(call.result.newTotalSeconds)
        /\ call.result.newTotalSeconds.den = 1
        /\ 2 * EnergyDifference <= CallTW
        /\ 2 * (-EnergyDifference) <= CallTW

\* a call whose converted time delivers more energy than the recipe's, by
\* exactly half a second of the target power
C21_Witness ==
    /\ call.made
    /\ 2 * EnergyDifference = CallTW

\* C22: newTotalSeconds is never negative, and a positive original duration
\* converts to zero seconds, displayed as '0s', exactly when
\* 2*originalTotalSeconds*originalWattage < targetWattage; otherwise
\* newTotalSeconds is at least 1.
C22_ZeroOnlyBelowHalfSecond ==
    (call.made /\ CallTotal > 0) =>
        LET n == call.result.newTotalSeconds
        IN  /\ IsFinite(n) /\ n.den = 1 /\ n.num >= 0
            /\ (n.num = 0) <=> (2 * CallTotal * CallOW < CallTW)
            /\ (2 * CallTotal * CallOW >= CallTW) => n.num >= 1
            /\ (n.num = 0 /\ ~hidden) => resultTime = "0s"
            /\ (n.num >= 1 /\ ~hidden) => resultTime # "0s"

\* nine seconds at 100W converted for 2000W were displayed as '0s'
C22_Witness ==
    /\ call.made /\ ~hidden
    /\ CallTotal = 9 /\ CallOW = 100 /\ CallTW = 2000
    /\ call.result.newTotalSeconds = Num(0)
    /\ resultTime = "0s"

(***************************************************************************)
(* The blocks of the form and their error messages.  A dom value d is      *)
(* [cls, msg]; the operators below return the dom after the call.          *)
(***************************************************************************)
Dom == [cls |-> cls, msg |-> msg]

\* input.closest('.input-group') || input.closest('.form-group')
fieldGroupOf(id) ==
    CASE id = "originalWattage" -> "recipeGroup"
      [] id = "targetWattage" -> "yourGroup"
      [] OTHER -> "timeGroup"

required_none(id) == FALSE

\* input.hasAttribute('required')
required(id) == id \in {"originalWattage", "targetWattage"}

\* block.querySelector('.error-message'): the block that holds the first
\* .error-message below `block` in document order, "none" if there is none.
\* The .time-row lies inside the time block, before the block's own message.
querySelectorErrorMessage(d, block) ==
    IF block = "timeGroup"
    THEN IF d.msg["timeRow"] # "" THEN "timeRow"
         ELSE IF d.msg["timeGroup"] # "" THEN "timeGroup" ELSE "none"
    ELSE IF d.msg[block] # "" THEN block ELSE "none"

\* errorMsg.remove() for the first .error-message below block, if any
removeErrorMessage(d, block) ==
    LET holder == querySelectorErrorMessage(d, block)
    IN  IF holder = "none" THEN d.msg ELSE [d.msg EXCEPT ![holder] = ""]

showError(d, block, message) ==
    LET holder == querySelectorErrorMessage(d, block)
    IN  [ cls |-> [d.cls EXCEPT ![block] = "error"],
          msg |-> [d.msg EXCEPT ![IF holder = "none" THEN block ELSE holder] = message] ]

showSuccess(d, block) ==
    [ cls |-> [d.cls EXCEPT ![block] = "success"],
      msg |-> removeErrorMessage(d, block) ]

clearErrors(d, id) ==
    [ cls |-> [d.cls EXCEPT ![fieldGroupOf(id)] = "none"],
      msg |-> removeErrorMessage(d, fieldGroupOf(id)) ]

MsgRequired == "This field is required"
MsgTooLow == "Wattage must be at least 100 watts"
MsgTooHigh == "Wattage must be 2000 watts or less"
MsgSeconds == "Seconds must be between 0-59"
\* the source writes the sign "less than or equal to" in place of <=
MsgMinutes == "Minutes should be reasonable (<=60)"
MsgNoTime == "Please specify at least some cooking time"

IsWattage(id) == id \in {"originalWattage", "targetWattage"}

\* the message validateInput shows for the input, "" when the input passes
validateInputMessage(id, text) ==
    LET v == parseFloat(text)
    IN  CASE required(id) /\ (text.kind = "empty" \/ JsLe(v, Num(0))) -> MsgRequired
          [] IsWattage(id) /\ JsLt(v, Num(MinWattage)) -> MsgTooLow
          [] IsWattage(id) /\ JsGt(v, Num(MaxWattage)) -> MsgTooHigh
          [] id = "originalSeconds" /\ JsGt(v, Num(MaxSeconds)) -> MsgSeconds
          [] id = "originalMinutes" /\ JsGt(v, Num(MaxMinutes)) -> MsgMinutes
          [] OTHER -> ""

\* validateInput(input): [ok, dom]
validateInput(d, id, text) ==
    LET cleared == clearErrors(d, id)
        message == validateInputMessage(id, text)
    IN  IF message # ""
        THEN [ok |-> FALSE, dom |-> showError(cleared, fieldGroupOf(id), message)]
        ELSE [ok |-> TRUE, dom |-> showSuccess(cleared, fieldGroupOf(id))]

\* the inputs.forEach of validateForm over the first n inputs: [ok, dom]
RECURSIVE validateInputs(_, _, _)
validateInputs(d, val, n) ==
    IF n = 0 THEN [ok |-> TRUE, dom |-> d]
    ELSE LET before == validateInputs(d, val, n - 1)
             this == validateInput(before.dom, InputIds[n], val[InputIds[n]])
         IN  [ok |-> before.ok /\ this.ok, dom |-> this.dom]

validateForm_anyZero(d, val) ==
    LET each == validateInputs(d, val, Len(InputIds))
        minutes == OrZero(parseInt(val["originalMinutes"]))
        seconds == OrZero(parseInt(val["originalSeconds"]))
    IN  IF JsEq(minutes, Num(0)) \/ JsEq(seconds, Num(0))
        THEN [ok |-> FALSE, dom |-> showError(each.dom, "timeRow", MsgNoTime)]
        ELSE each

\* validateForm(): [ok, dom]
validateForm(d, val) ==
    LET each == validateInputs(d, val, Len(InputIds))
        minutes == OrZero(parseInt(val["originalMinutes"]))
        seconds == OrZero(parseInt(val["originalSeconds"]))
    IN  IF JsEq(minutes, Num(0)) /\ JsEq(seconds, Num(0))
        THEN [ok |-> FALSE, dom |-> showError(each.dom, "timeRow", MsgNoTime)]
        ELSE each

\* getFormData()
getFormData(val) ==
    [ originalWattage |-> parseInt(val["originalWattage"]),
      originalMinutes |-> OrZero(parseInt(val["originalMinutes"])),
      originalSeconds |-> OrZero(parseInt(val["originalSeconds"])),
      targetWattage |-> parseInt(val["targetWattage"]) ]

\* the 'input' listeners of addInputFormatting: the text left in the input
\* after the user's edit made it `text`
formatInput(id, text) ==
    LET v == parseInt(text)
    IN  CASE IsWattage(id) ->
                IF JsLt(v, Num(0)) THEN Empty
                ELSE IF JsGt(v, Num(MaxWattage)) THEN IntText(MaxWattage) ELSE text
          [] id = "originalSeconds" ->
                IF JsLt(v, Num(0)) THEN IntText(0)
                ELSE IF JsGt(v, Num(MaxSeconds)) THEN IntText(MaxSeconds) ELSE text
          [] OTHER ->
                IF JsLt(v, Num(0)) THEN IntText(0)
                ELSE IF JsGt(v, Num(MaxMinutes)) THEN IntText(MaxMinutes) ELSE text

handleSubmit_displaysAlways ==
    LET checked == validateForm(Dom, value)
        formData == getFormData(value)
        result == calculateConversion(formData)
    IN  /\ cls' = checked.dom.cls
        /\ msg' = checked.dom.msg
        /\ lastEvent' = Event("submit", focus, checked.ok)
        /\ call' = [made |-> TRUE, data |-> formData, result |-> result]
        /\ displayResult(result, formData)
        /\ UNCHANGED <<value, rec, req, focus>>

\* handleSubmit(e): validateForm, and on success getFormData,
\* calculateConversion and displayResult.  The event records the input that
\* had the focus: "" for a click on Calculate, the input for the Enter key.
handleSubmit ==
    LET checked == validateForm(Dom, value)
        formData == getFormData(value)
        result == calculateConversion(formData)
    IN  /\ cls' = checked.dom.cls
        /\ msg' = checked.dom.msg
        /\ lastEvent' = Event("submit", focus, checked.ok)
        /\ IF checked.ok
           THEN /\ call' = [made |-> TRUE, data |-> formData, result |-> result]
                /\ displayResult(result, formData)
           ELSE UNCHANGED <<call, hidden, resultTime, resultExplanation>>
        /\ UNCHANGED <<value, rec, req, focus>>

\* the 'blur' listener of addInputValidation
Blur(id) ==
    LET checked == validateInput(Dom, id, value[id])
    IN  /\ cls' = checked.dom.cls
        /\ msg' = checked.dom.msg
        /\ lastEvent' = Event("blur", id, checked.ok)
        /\ UNCHANGED <<value, hidden, resultTime, resultExplanation, call, rec, req>>

(***************************************************************************)
(* SpecValidate: validateInput (blur) and validateForm (submit) applied    *)
(* once to every content the input listeners can leave in the four inputs, *)
(* also to the contents for which a browser that enforces the min, max and *)
(* step of the inputs would not dispatch 'submit' (see checkValidity).     *)
(***************************************************************************)
\* texts a user enters in a wattage input: nothing (or no number), 0, the
\* numbers around both limits, a negative number, fractions, and numbers
\* written with an exponent (1e3 and 0.1e4 are both 1000)
TypedWattage ==
    { Empty, IntText(0), IntText(MinWattage - 1), IntText(MinWattage), IntText(MaxWattage),
      IntText(MaxWattage + 1), IntText(-5), NumText(FALSE, MinWattage - 1, 5, 0),
      NumText(FALSE, MaxWattage, 5, 0), NumText(TRUE, 0, 5, 0),
      NumText(FALSE, 1, 0, 3), NumText(FALSE, 0, 1, 4) }

TypedMinutes ==
    { Empty, IntText(0), IntText(1), IntText(MaxMinutes), IntText(MaxMinutes + 1),
      IntText(-1), NumText(FALSE, MaxMinutes, 5, 0) }

TypedSeconds ==
    { Empty, IntText(0), IntText(1), IntText(MaxSeconds), IntText(MaxSeconds + 1),
      IntText(-5), NumText(FALSE, MaxSeconds, 5, 0), NumText(TRUE, 0, 5, 0) }

Typed(id) ==
    CASE IsWattage(id) -> TypedWattage
      [] id = "originalMinutes" -> TypedMinutes
      [] OTHER -> TypedSeconds

\* the texts the 'input' listeners leave in the input
Entered(id) == { formatInput(id, t) : t \in Typed(id) }

ValidateInit ==
    /\ value \in [ originalWattage : Entered("originalWattage"),
                   originalMinutes : Entered("originalMinutes"),
                   originalSeconds : Entered("originalSeconds"),
                   targetWattage : Entered("targetWattage") ]
    /\ PageLoaded
    /\ req = NoReq
    /\ lastEvent = Event("load", "", TRUE)

ValidateBlur ==
    /\ lastEvent.name = "load"
    /\ \E i \in 1..Len(InputIds) : Blur(InputIds[i])
    /\ UNCHANGED focus

ValidateSubmit ==
    /\ lastEvent.name = "load"
    /\ handleSubmit

ValidateNext == ValidateBlur \/ ValidateSubmit

SpecValidate == ValidateInit /\ [][ValidateNext]_vars

(***************************************************************************)
(* Spec: the page and its events.  The user moves the focus, edits the     *)
(* input that has it, presses Enter or Escape, and clicks the Calculate,   *)
(* quick-select and reset buttons.  A button is clicked while no input has *)
(* the focus: the pointer or the Tab key has moved it to the button first. *)
(***************************************************************************)
\* texts the user enters in the page model: 100 as the recipe's wattage,
\* 0.1e4 (that is 1000) as the own wattage, 0 minutes, 0 seconds
PageTyped(id) ==
    CASE id = "originalWattage" -> { IntText(MinWattage) }
      [] id = "targetWattage" -> { NumText(FALSE, 0, 1, 4) }
      [] OTHER -> { IntText(0) }

Init ==
    /\ value = LoadedValue
    /\ PageLoaded
    /\ req = NoReq
    /\ lastEvent = Event("load", "", TRUE)

\* the user clicks into an input or reaches it with the Tab key; no listener
FocusInput ==
    /\ focus = ""
    /\ \E i \in 1..Len(InputIds) : focus' = InputIds[i]
    /\ lastEvent' = Event("focus", focus', TRUE)
    /\ UNCHANGED <<value, cls, msg, hidden, resultTime, resultExplanation, call, rec, req>>

\* the 'input' listeners: clearErrors (addInputValidation) and the clamp
\* (addInputFormatting), after the user's edit made the text `text`
InputEdit(id, text) ==
    LET cleared == clearErrors(Dom, id)
    IN  /\ text # value[id]
        /\ value' = [value EXCEPT ![id] = formatInput(id, text)]
        /\ cls' = cleared.cls
        /\ msg' = cleared.msg
        /\ lastEvent' = Event("input", "", TRUE)
        /\ UNCHANGED <<hidden, resultTime, resultExplanation, call, rec, req, focus>>

Input ==
    /\ focus # ""
    /\ \E text \in PageTyped(focus) : InputEdit(focus, text)

\* the focus leaves the input that has it
BlurInput ==
    /\ focus # ""
    /\ Blur(focus)
    /\ focus' = ""

\* the min, max and required attributes of the inputs; the step is 1
minOf(id) == IF IsWattage(id) THEN MinWattage ELSE 0

maxOf(id) ==
    CASE IsWattage(id) -> MaxWattage
      [] id = "originalMinutes" -> MaxMinutes
      [] OTHER -> MaxSeconds

\* the browser's constraint validation of one input[type=number]
inputValid(id, text) ==
    IF text.kind = "empty" THEN ~required(id)
    ELSE LET v == parseFloat(text)
         IN  /\ IsFinite(v) /\ v.num % v.den = 0
             /\ JsGe(v, Num(minOf(id)))
             /\ JsLe(v, Num(maxOf(id)))

\* form.checkValidity(): the form has no novalidate attribute, so the
\* browser dispatches 'submit' only when every input satisfies its constraints
checkValidity(val) ==
    \A i \in 1..Len(InputIds) : inputValid(InputIds[i], val[InputIds[i]])

\* a click on Calculate: the 'submit' listener of the form
Submit ==
    /\ focus = ""
    /\ checkValidity(value)
    /\ handleSubmit

\* the groups.forEach of resetForm over the first n .input-group blocks
InputGroups == <<"recipeGroup", "timeGroup", "yourGroup">>

RECURSIVE clearGroups(_, _)
clearGroups(d, n) ==
    IF n = 0 THEN d
    ELSE LET before == clearGroups(d, n - 1)
         IN  [ cls |-> [before.cls EXCEPT ![InputGroups[n]] = "none"],
               msg |-> removeErrorMessage(before, InputGroups[n]) ]

\* the values resetForm leaves in the inputs
ResetValue ==
    [LoadedValue EXCEPT !["targetWattage"] = IntText(DefaultTargetWattage),
                        !["originalMinutes"] = IntText(0),
                        !["originalSeconds"] = IntText(0)]

\* resetForm().  Its focus() on originalWattage takes the focus from the
\* input that has it, whose 'blur' listener validates that input.
resetForm ==
    LET cleared == clearGroups(Dom, Len(InputGroups))
        left == IF focus \in {"", "originalWattage"} THEN cleared
                ELSE validateInput(cleared, focus, ResetValue[focus]).dom
    IN  /\ value' = ResetValue
        /\ hidden' = TRUE
        /\ cls' = left.cls
        /\ msg' = left.msg
        /\ focus' = "originalWattage"
        /\ UNCHANGED <<resultTime, resultExplanation, call, rec, req>>

\* a click on the reset button, which lies in the result section
ResetClick ==
    /\ ~hidden
    /\ focus = ""
    /\ resetForm
    /\ lastEvent' = Event("reset", "", TRUE)

\* the 'keydown' listener, key Enter, the target an input:
\* .calculate-btn.click()
KeyEnter ==
    /\ focus # ""
    /\ checkValidity(value)
    /\ handleSubmit

KeyEscape_always ==
    /\ resetForm
    /\ lastEvent' = Event("escape", focus, TRUE)

\* the 'keydown' listener, key Escape: resetBtn.click() unless the result
\* section is hidden
KeyEscape ==
    IF ~hidden
    THEN /\ resetForm
         /\ lastEvent' = Event("escape", focus, TRUE)
    ELSE /\ lastEvent' = Event("escape", focus, FALSE)
         /\ UNCHANGED <<value, cls, msg, hidden, resultTime, resultExplanation, call, rec,
                        req, focus>>

QuickSelectWattage_firesInput ==
    \E id \in {"originalWattage", "targetWattage"} : \E k \in 1..QuickLimit :
        LET cleared == clearErrors(Dom, id)
        IN  /\ focus = ""
            /\ k <= Len(commonWattages)
            /\ value' = [value EXCEPT ![id] = IntText(commonWattages[k])]
            /\ cls' = cleared.cls
            /\ msg' = cleared.msg
            /\ lastEvent' = Event("quickWattage", "", TRUE)
            /\ UNCHANGED <<hidden, resultTime, resultExplanation, call, rec, req, focus>>

\* a click on a wattage quick-select button
QuickSelectWattage ==
    \E id \in {"originalWattage", "targetWattage"} : \E k \in 1..QuickLimit :
        /\ focus = ""
        /\ k <= Len(commonWattages)
        /\ value' = [value EXCEPT ![id] = IntText(commonWattages[k])]
        /\ lastEvent' = Event("quickWattage", "", TRUE)
        /\ UNCHANGED <<cls, msg, hidden, resultTime, resultExplanation, call, rec, req, focus>>

\* a click on a time quick-select button
QuickSelectTime ==
    \E k \in 1..QuickLimit :
        /\ focus = ""
        /\ k <= Len(commonTimes)
        /\ value' = [value EXCEPT !["originalMinutes"] = IntText(commonTimes[k].minutes),
                                  !["originalSeconds"] = IntText(commonTimes[k].seconds)]
        /\ lastEvent' = Event("quickTime", "", TRUE)
        /\ UNCHANGED <<cls, msg, hidden, resultTime, resultExplanation, call, rec, req, focus>>

Next ==
    \/ FocusInput \/ Input \/ BlurInput
    \/ Submit \/ KeyEnter \/ KeyEscape \/ ResetClick
    \/ QuickSelectWattage \/ QuickSelectTime

Spec == Init /\ [][Next]_vars

(***************************************************************************)
(* Claims about validation (SpecValidate).                                 *)
(***************************************************************************)
\* the text is a plain integer (no sign, fraction or exponent) between lo and hi
PlainIntegerIn(text, lo, hi) ==
    /\ text.kind = "number" /\ ~text.neg /\ text.frac = 0 /\ text.exp = 0
    /\ lo <= text.ip /\ text.ip <= hi

\* the four inputs hold a request of the data model
FieldsInRange ==
    /\ PlainIntegerIn(value["originalWattage"], MinWattage, MaxWattage)
    /\ PlainIntegerIn(value["targetWattage"], MinWattage, MaxWattage)
    /\ PlainIntegerIn(value["originalMinutes"], 0, MaxMinutes)
    /\ PlainIntegerIn(value["originalSeconds"], 0, MaxSeconds)

\* C5: a wattage outside [100,2000] (99, 2001, 0, a negative number) is rejected
\* with an out-of-range message and no other; 100 and 2000 are accepted.
C5_WattageOutOfRange ==
    (lastEvent.name = "blur" /\ IsWattage(lastEvent.id)) =>
        LET text == value[lastEvent.id]
            group == fieldGroupOf(lastEvent.id)
        IN  /\ (text.kind = "number" /\ ~isValidWattage(parseFloat(text))) =>
                    /\ ~lastEvent.ok
                    /\ cls[group] = "error"
                    /\ msg[group] \in {MsgTooLow, MsgTooHigh}
            /\ text \in {IntText(MinWattage), IntText(MaxWattage)} =>
                    /\ lastEvent.ok
                    /\ cls[group] = "success"
                    /\ msg[group] = ""

\* C6: a form whose fields are in range is accepted exactly when
\* minutes*60 + seconds > 0; 0 minutes 0 seconds is rejected with 'Please
\* specify at least some cooking time' and nothing is converted.
C6_AcceptedIffPositiveTime ==
    (lastEvent.name = "submit" /\ FieldsInRange) =>
        LET total == value["originalMinutes"].ip * SecondsPerMinute + value["originalSeconds"].ip
        IN  /\ lastEvent.ok <=> total > 0
            /\ lastEvent.ok <=> call.made
            /\ lastEvent.ok => (msg = [b \in Blocks |-> ""] /\ ~hidden)
            /\ ~lastEvent.ok => (cls["timeRow"] = "error" /\ msg["timeRow"] = MsgNoTime /\ hidden)

\* 0 minutes 1 second with both wattages in range was submitted and accepted
C6_Witness ==
    /\ lastEvent.name = "submit" /\ FieldsInRange
    /\ value["originalMinutes"] = IntText(0) /\ value["originalSeconds"] = IntText(1)
    /\ lastEvent.ok /\ call.made

\* the input holds a number outside [lo, hi]
NumberOutside(text, lo, hi) ==
    /\ text.kind = "number"
    /\ (JsLt(parseFloat(text), Num(lo)) \/ JsGt(parseFloat(text), Num(hi)))

\* C7: seconds outside [0,59] or minutes outside [0,60], negative values included,
\* fail validation (of the input on blur, of the form on submit) and are not
\* converted.
C7_TimeOutOfRangeRejected ==
    /\ (lastEvent.name = "blur" /\ lastEvent.id = "originalSeconds"
            /\ NumberOutside(value["originalSeconds"], 0, MaxSeconds)) => ~lastEvent.ok
    /\ (lastEvent.name = "blur" /\ lastEvent.id = "originalMinutes"
            /\ NumberOutside(value["originalMinutes"], 0, MaxMinutes)) => ~lastEvent.ok
    /\ (lastEvent.name = "submit"
            /\ (\/ NumberOutside(value["originalSeconds"], 0, MaxSeconds)
                \/ NumberOutside(value["originalMinutes"], 0, MaxMinutes)))
          => (~lastEvent.ok /\ ~call.made)

\* C8 as claimed: a form with any of its four inputs empty fails with the
\* required-field message on that input's block and is not converted.
C8_EveryFieldRequired ==
    lastEvent.name = "submit" =>
        \A i \in 1..Len(InputIds) :
            value[InputIds[i]] = Empty =>
                /\ ~lastEvent.ok
                /\ ~call.made

\* C8 as amended: an empty wattage input fails with 'This field is required'
\* and the form is not converted; an empty minutes or seconds input is no
\* error and is read as 0.
C8_WattageRequiredTimeDefaultsToZero ==
    /\ (lastEvent.name = "blur" /\ value[lastEvent.id] = Empty) =>
            (lastEvent.ok <=> ~IsWattage(lastEvent.id))
    /\ (lastEvent.name = "blur" /\ value[lastEvent.id] = Empty /\ IsWattage(lastEvent.id)) =>
            /\ cls[fieldGroupOf(lastEvent.id)] = "error"
            /\ msg[fieldGroupOf(lastEvent.id)] = MsgRequired
    /\ lastEvent.name = "submit" =>
            /\ (value["originalWattage"] = Empty \/ value["targetWattage"] = Empty) =>
                    (~lastEvent.ok /\ ~call.made)
            /\ value["originalWattage"] = Empty =>
                    (cls["recipeGroup"] = "error" /\ msg["recipeGroup"] = MsgRequired)
            /\ value["targetWattage"] = Empty =>
                    (cls["yourGroup"] = "error" /\ msg["yourGroup"] = MsgRequired)
            /\ (call.made /\ value["originalMinutes"] = Empty) =>
                    call.data.originalMinutes = Num(0)
            /\ (call.made /\ value["originalSeconds"] = Empty) =>
                    call.data.originalSeconds = Num(0)

\* a form with an empty target wattage was submitted and rejected as required
C8_Witness ==
    /\ lastEvent.name = "submit"
    /\ value["targetWattage"] = Empty
    /\ value["originalWattage"] = IntText(MinWattage)
    /\ value["originalSeconds"] = IntText(1)
    /\ ~lastEvent.ok /\ ~call.made
    /\ msg["yourGroup"] = MsgRequired

(***************************************************************************)
(* Claims about the page (Spec).                                           *)
(***************************************************************************)
\* the number is an integer between lo and hi
IntegerIn(x, lo, hi) == IsInteger(x) /\ JsGe(x, Num(lo)) /\ JsLe(x, Num(hi))

\* C9: handleSubmit calls calculateConversion only with data of a valid request:
\* both wattages integers in [100,2000], minutes in [0,60], seconds in [0,59],
\* not both zero; so the division is by a positive wattage and the result is a
\* finite time.
C9_ConvertsOnlyValidData ==
    call.made =>
        /\ IntegerIn(call.data.originalWattage, MinWattage, MaxWattage)
        /\ IntegerIn(call.data.targetWattage, MinWattage, MaxWattage)
        /\ IntegerIn(call.data.originalMinutes, 0, MaxMinutes)
        /\ IntegerIn(call.data.originalSeconds, 0, MaxSeconds)
        /\ ~(JsEq(call.data.originalMinutes, Num(0)) /\ JsEq(call.data.originalSeconds, Num(0)))
        /\ JsGt(call.data.targetWattage, Num(0))
        /\ IsFinite(call.result.newTotalSeconds)

(***************************************************************************)
(* Claims about the quick-select buttons, the keyboard and resetForm       *)
(* (Spec).                                                                 *)
(***************************************************************************)
\* the step ends with the named listener as the last one that ran
Ran(name) == lastEvent'.name = name

\* all that a step may change besides the texts of the inputs
PageUnchanged == UNCHANGED <<cls, msg, hidden, resultTime, resultExplanation, call, rec>>

\* C16: a quick-select click only prefills: a wattage button sets exactly one
\* wattage input to one of 600, 700, ..., 1200, a time button sets exactly the
\* minutes and seconds inputs to one of the catalog durations of 30 s to 10 min;
\* neither validates nor converts, and the result section, the other inputs and
\* every validation state stay as they are.  Every catalog value is a valid
\* value of its input.
C16_QuickSelectOnlyPrefills ==
    [][ /\ Ran("quickWattage") =>
              /\ \E id \in {"originalWattage", "targetWattage"} :
                   \E w \in {600, 700, 800, 900, 1000, 1100, 1200} :
                       /\ value' = [value EXCEPT ![id] = IntText(w)]
                       /\ validateInputMessage(id, value'[id]) = ""
              /\ PageUnchanged
        /\ Ran("quickTime") =>
              /\ \E k \in 1..Len(commonTimes) :
                   /\ value' = [value EXCEPT
                                  !["originalMinutes"] = IntText(commonTimes[k].minutes),
                                  !["originalSeconds"] = IntText(commonTimes[k].seconds)]
                   /\ 30 <= commonTimes[k].minutes * SecondsPerMinute + commonTimes[k].seconds
                   /\ commonTimes[k].minutes * SecondsPerMinute + commonTimes[k].seconds <= 600
              /\ validateInputMessage("originalMinutes", value'["originalMinutes"]) = ""
              /\ validateInputMessage("originalSeconds", value'["originalSeconds"]) = ""
              /\ PageUnchanged
        /\ (Ran("quickWattage") \/ Ran("quickTime")) =>
              /\ \A k \in 1..Len(commonWattages) : isValidWattage(Num(commonWattages[k]))
              /\ \A k \in 1..Len(commonTimes) :
                   /\ commonTimes[k].minutes \in 0..MaxMinutes
                   /\ commonTimes[k].seconds \in 0..MaxSeconds
                   /\ commonTimes[k].minutes + commonTimes[k].seconds > 0
      ]_vars

\* a wattage button was clicked while its input showed the required-field
\* error: the input holds 600 and still shows the error
C16_Witness ==
    /\ lastEvent.name = "quickWattage"
    /\ value["originalWattage"] = IntText(600)
    /\ cls["recipeGroup"] = "error"
    /\ msg["recipeGroup"] = MsgRequired

C18_ResetRestoresInitialState ==
    lastEvent.name = "reset" =>
        /\ value["originalWattage"] = Empty
        /\ value["targetWattage"] = IntText(700)
        /\ value["originalMinutes"] = IntText(0)
        /\ value["originalSeconds"] = IntText(0)
        /\ hidden
        /\ \A b \in Blocks : cls[b] = "none" /\ msg[b] = ""

\* C20: the result section is shown only by a submit that passed validation
\* and hidden only by resetForm; a submit that fails validation converts
\* nothing and leaves the visibility of the result section, the displayed time
\* and the explanation as they are; while the result section is visible the
\* displayed time is the conversion of the form data read by the latest
\* successful submit.
C20_ResultFollowsSuccessfulSubmit ==
    [][ /\ (hidden /\ ~hidden') =>
              (Ran("submit") /\ lastEvent'.ok /\ validateForm(Dom, value).ok)
        /\ (~hidden /\ hidden') => (Ran("reset") \/ Ran("escape"))
        /\ (Ran("submit") /\ ~lastEvent'.ok) =>
              /\ ~validateForm(Dom, value).ok
              /\ UNCHANGED <<hidden, resultTime, resultExplanation, call>>
        /\ IF Ran("submit") /\ lastEvent'.ok
           THEN /\ ~hidden'
                /\ call'.made
                /\ call'.data = getFormData(value)
                /\ resultTime' = timeString(calculateConversion(getFormData(value)))
           ELSE UNCHANGED <<resultTime, resultExplanation, call>>
        /\ ~hidden' => (call'.made /\ resultTime' = timeString(call'.result))
      ]_vars

\* a submit failed while the result of an earlier submit was visible
C20_Witness ==
    /\ lastEvent.name = "submit" /\ ~lastEvent.ok
    /\ ~hidden
    /\ call.made
    /\ resultTime = timeString(call.result)

(***************************************************************************)
(* Claims about the display of a failed submit (SpecValidate).             *)
(***************************************************************************)
\* the inputs whose own check of validateInput fails on the text they hold
FailingInputs == { id \in Range(InputIds) : validateInputMessage(id, value[id]) # "" }

====
